---- MODULE Spec2Model ----
(***************************************************************************)
(* State-machine model of the upload server:                               *)
(*   - the two-step Lambda handler (POST /upload/init, POST                 *)
(*     /upload/complete) of src/unnamed/part_000,                           *)
(*   - the single-request Lambda handler (POST /upload with a multipart     *)
(*     body) of src/lambda/index.mjs,                                       *)
(*   - the S3 bucket it shares with the clients holding presigned URLs,     *)
(*   - the CloudFront viewer-request function of src/cloudfront-function.js.*)
(* JavaScript strings that the code inspects character by character (keys, *)
(* paths, query strings, host names) are sequences of one-character        *)
(* strings; opaque values (header values, object bodies, messages) are     *)
(* TLA+ strings.                                                           *)
(***************************************************************************)
EXTENDS Integers, Sequences, FiniteSets, TLC

(* ------------------------------ bounds ---------------------------------- *)
\* number of identifiers randomUUID can hand out in one behaviour
MaxMint == 2
\* number of invocations that reach a call to the bucket in one behaviour
MaxFin == 2
\* the same, for a caller who calls again only after the previous answer
RetryFin == 3
\* longest Host header / request URI given to the CloudFront function
MaxHostLen == 3
MaxUriLen == 3

(* --------------------------- string helpers ----------------------------- *)
\* JavaScript undefined (a missing header, field or environment variable)
Undef == "<undefined>"

\* JavaScript truthiness of a string-or-undefined value, as used by || and !
Falsy(x) == x = Undef \/ x = ""

\* a || b
OrElse(a, b) == IF Falsy(a) THEN b ELSE a

\* String.prototype.startsWith / endsWith on character sequences
startsWith(s, p) == Len(s) >= Len(p) /\ SubSeq(s, 1, Len(p)) = p

endsWith(s, p) == Len(s) >= Len(p) /\ SubSeq(s, Len(s) - Len(p) + 1, Len(s)) = p

\* String.prototype.indexOf(c): 0-based index of the first c, -1 when absent
indexOf(s, c) ==
    IF \E k \in 1..Len(s) : s[k] = c
    THEN (CHOOSE k \in 1..Len(s) : s[k] = c /\ \A j \in 1..(k - 1) : s[j] # c) - 1
    ELSE -1

\* String.prototype.substring(from, to) with 0-based, end-exclusive indices
substring(s, from, to) == SubSeq(s, from + 1, to)

\* all character sequences over alphabet A of length at most n
RECURSIVE StringsUpTo(_, _)
StringsUpTo(A, n) ==
    IF n = 0 THEN {<<>>}
    ELSE LET shorter == StringsUpTo(A, n - 1)
         IN  shorter \cup {Append(s, c) : s \in shorter, c \in A}

(* ---------------------- configuration (process.env) --------------------- *)
\* the secret the deployment was given (var.upload_key)
SECRET == "s3cret"

BASE_DOMAIN == <<"x", ".", "y">>

MAX_CONTENT_LENGTH_MB == 100

MAX_BYTES == MAX_CONTENT_LENGTH_MB * 1024 * 1024

STAGING_PREFIX == <<"i", "n", "c", "o", "m", "i", "n", "g", "/">>

ZipSuffix == <<".", "z", "i", "p">>

\* `${STAGING_PREFIX}${uuid}.zip`
StagingKey(uuid) == STAGING_PREFIX \o uuid \o ZipSuffix

\* identifiers crypto.randomUUID returns, in the order it returns them:
\* pairwise different, made of hex digits and '-' only
AllUUIDs == << <<"a", "1">>, <<"b", "2">>, <<"c", "3">>, <<"d", "4">> >>

UUIDPool == {AllUUIDs[k] : k \in 1..MaxMint}


(* ------------------- more JavaScript string functions ------------------- *)
\* a missing string-valued field (event.rawPath, the Host header, ...)
UndefSeq == <<Undef>>

\* a test that only null fails
FalsySeq_NullOnly(s) == s = UndefSeq

\* !s for a string-or-null value held as a character sequence
FalsySeq(s) == s = UndefSeq \/ s = <<>>

\* String.prototype.lastIndexOf(c), 0-based, -1 when absent
lastIndexOf(s, c) ==
    IF \E k \in 1..Len(s) : s[k] = c
    THEN (CHOOSE k \in 1..Len(s) : s[k] = c /\ \A j \in (k + 1)..Len(s) : s[j] # c) - 1
    ELSE -1

\* s.replace(/\/+$/, ""): drop every trailing slash
RECURSIVE StripTrailingSlashes(_)
StripTrailingSlashes(s) ==
    IF Len(s) > 0 /\ s[Len(s)] = "/"
    THEN StripTrailingSlashes(SubSeq(s, 1, Len(s) - 1))
    ELSE s

\* s.split(c)
RECURSIVE SplitOn(_, _)
SplitOn(s, c) ==
    LET k == indexOf(s, c)
    IN  IF k = -1 THEN <<s>>
        ELSE <<substring(s, 0, k)>> \o SplitOn(substring(s, k + 1, Len(s)), c)

\* application/x-www-form-urlencoded decoding of one name or value: '+' is a
\* space (the alphabet of the model has no '%')
FormDecode(s) == [k \in 1..Len(s) |-> IF s[k] = "+" THEN " " ELSE s[k]]

\* new URLSearchParams(qs).get(name): the value of the first pair with that
\* name, null when there is none
URLSearchParamsGet(qs, name) ==
    LET body   == IF Len(qs) > 0 /\ qs[1] = "?" THEN SubSeq(qs, 2, Len(qs)) ELSE qs
        pairs  == SplitOn(body, "&")
        NameOf(p)  == FormDecode(IF indexOf(p, "=") = -1 THEN p
                                 ELSE substring(p, 0, indexOf(p, "=")))
        ValueOf(p) == FormDecode(IF indexOf(p, "=") = -1 THEN <<>>
                                 ELSE substring(p, indexOf(p, "=") + 1, Len(p)))
        hits   == {k \in 1..Len(pairs) : Len(pairs[k]) > 0 /\ NameOf(pairs[k]) = name}
    IN  IF hits = {} THEN UndefSeq
        ELSE ValueOf(pairs[CHOOSE k \in hits : \A j \in hits : k <= j])

\* How API Gateway (payload format 2.0) presents a request target to the
\* function: rawPath is the part before the first '?', rawQueryString the rest
RawPathOf(url) ==
    IF indexOf(url, "?") = -1 THEN url ELSE substring(url, 0, indexOf(url, "?"))

RawQueryStringOf(url) ==
    IF indexOf(url, "?") = -1 THEN <<>>
    ELSE substring(url, indexOf(url, "?") + 1, Len(url))

(* ------------------------- objects and archives ------------------------- *)
\* Bodies a client may PUT at a staging key.  Each name stands for one byte
\* string; ByteLength and Files say what the code can observe of it.
Bodies == {"Good", "Trav", "Edge", "Big", "Junk", "Many"}

\* the bodies with at most two file entries
PipelineBodies == {"Good", "Trav", "Edge", "Big", "Junk"}

\* Buffer.length of a body
ByteLength(b) ==
    CASE b = "Good" -> 300
      [] b = "Trav" -> 200
      [] b = "Many" -> 400
      [] b = "Edge" -> MAX_BYTES
      [] b = "Big"  -> MAX_BYTES + 1
      [] OTHER      -> 1

\* whether unzipper.Open.buffer finds a central directory in the body
IsZip(b) == b \in {"Good", "Trav", "Edge", "Big", "Many"}

\* directory.files of unzipper.Open.buffer(body): the entries of the central
\* directory in order, with the bytes f.stream() yields for each
Files(b) ==
    CASE b = "Good" -> << [path |-> <<"d", "/">>, data |-> ""],
                          [path |-> <<"a", ".", "j", "s">>, data |-> "js-1"],
                          [path |-> <<"d", "/", "b">>, data |-> "b-1"] >>
      [] b = "Trav" -> << [path |-> <<".", ".", "/", "x">>, data |-> "x-1"] >>
      [] b = "Edge" -> << [path |-> <<"a", ".", "j", "s">>, data |-> "js-2"] >>
      [] b = "Big"  -> << [path |-> <<"a", ".", "j", "s">>, data |-> "js-1"] >>
      [] b = "Many" -> << [path |-> <<"a">>, data |-> "a-1"],
                          [path |-> <<"b">>, data |-> "b-1"],
                          [path |-> <<"c">>, data |-> "c-1"],
                          [path |-> <<"d">>, data |-> "d-1"] >>
      [] OTHER      -> << >>

\* mime.lookup(key) || "application/octet-stream", then mime.contentType:
\* decided by the extension of the last path segment
contentTypeFor(key) ==
    LET named == <<"x", ".">> \o key
        base  == substring(named, lastIndexOf(named, "/") + 1, Len(named))
        ext   == IF lastIndexOf(base, ".") <= 0 THEN <<>>
                 ELSE substring(base, lastIndexOf(base, ".") + 1, Len(base))
    IN  CASE ext = <<"j", "s">>      -> "application/javascript; charset=utf-8"
          [] ext = <<"z", "i", "p">> -> "application/zip"
          [] OTHER                   -> "application/octet-stream"

(* ------------------------------ requests -------------------------------- *)
InitPath == <<"/", "u", "p", "l", "o", "a", "d", "/", "i", "n", "i", "t">>

CompletePath == <<"/", "u", "p", "l", "o", "a", "d", "/",
                  "c", "o", "m", "p", "l", "e", "t", "e">>

UuidParam == <<"u", "u", "i", "d">>

\* the follow-up path with the parameter named id
CompleteUrl_Id(uuid) == CompletePath \o <<"?", "i", "d", "=">> \o uuid

\* `/upload/complete?uuid=${uuid}`
CompleteUrl(uuid) == CompletePath \o <<"?">> \o UuidParam \o <<"=">> \o uuid

\* the three spellings of the header the handler looks at
Headers(lower, upper, title) ==
    [lower |-> lower, upper |-> upper, title |-> title]

HeaderSets ==
    { Headers(Undef, Undef, Undef),
      Headers(SECRET, Undef, Undef),
      Headers(Undef, SECRET, Undef),
      Headers("", Undef, SECRET),
      Headers("wrong", SECRET, Undef),
      Headers("", Undef, Undef) }

Routes ==
    { <<"POST", InitPath>>,
      <<"POST", InitPath \o <<"/", "/">> >>,
      <<"GET", InitPath>>,
      <<"POST", CompletePath>>,
      <<"POST", CompletePath \o <<"/">> >>,
      <<Undef, CompletePath>>,
      <<"POST", <<"/", "x">> >>,
      <<"POST", UndefSeq>> }

\* identifiers a caller may put in the query string: the ones randomUUID can
\* return and two it never returns
CallerIds ==
    UUIDPool \cup { <<"i", "n", "c", "o", "m", "i", "n", "g">>,
                    AllUUIDs[1] \o <<"/", "d">> }

QueryStrings ==
    { UuidParam \o <<"=">> \o u : u \in CallerIds }
      \cup { <<"x", "=", "1", "&">> \o UuidParam \o <<"=">> \o AllUUIDs[1],
             UuidParam \o <<"=">>,
             <<"i", "d", "=">> \o AllUUIDs[1],
             <<>>,
             UndefSeq }

Event(h, m, p, q) ==
    [headers |-> h, method |-> m, rawPath |-> p, rawQueryString |-> q]

Events ==
    { Event(h, r[1], r[2], UuidParam \o <<"=">> \o AllUUIDs[1]) :
          h \in HeaderSets, r \in Routes }
      \cup { Event(Headers(SECRET, Undef, Undef), "POST", CompletePath, q) :
                 q \in QueryStrings }


(* -------------------------------- state --------------------------------- *)
VARIABLES
    UPLOAD_KEY,  \* process.env.UPLOAD_KEY: the configured secret, or undefined
    store,       \* the bucket: object key -> [body, contentType]
    minted,      \* how many identifiers randomUUID has returned so far
    issued,      \* the bodies of the 200 responses of /upload/init, which
                 \* hold the presigned PUT URLs the clients were given
    nfin,        \* how many /upload/complete invocations reached the read
    inv,         \* those invocations: position, locals, response
    last,        \* the response returned by the step just taken, if any,
                 \* with the key, method, path and uuid of its request
    edge,        \* the request the CloudFront function handled last
    edgePrev     \* the request it handled before that, kept when it was
                 \* the same request (same host, URI and query string)

lambdaVars == <<UPLOAD_KEY, store, minted, issued, nfin, inv, last>>

edgeVars == <<edge, edgePrev>>

vars == <<UPLOAD_KEY, store, minted, issued, nfin, inv, last, edge, edgePrev>>

NoBody == [none |-> TRUE]

\* no response was returned by the step just taken
NoLast ==
    [inv |-> 0, keyHdr |-> Undef, method |-> Undef, path |-> UndefSeq,
     uuid |-> UndefSeq, status |-> 0, body |-> NoBody, ops |-> <<>>]

\* an invocation slot not yet used
Idle ==
    [pc |-> "idle", path |-> UndefSeq, uuid |-> UndefSeq, zipBuf |-> Undef, inflight |-> {}, written |-> {}, status |-> 0,
     body |-> NoBody, ops |-> <<>>]

\* the CloudFront function has handled no request yet
NoEdge ==
    [in  |-> [host |-> UndefSeq, uri |-> UndefSeq, querystring |-> ""],
     out |-> [host |-> UndefSeq, uri |-> UndefSeq, querystring |-> ""],
     again |-> FALSE]

\* one call the function makes to S3 or to the request presigner
Op(name, key) == [op |-> name, key |-> key]

ErrorBody(msg) == [error |-> msg]

\* the bucket with an object written at key
PutObject(s, key, obj) ==
    [k \in DOMAIN s \cup {key} |-> IF k = key THEN obj ELSE s[k]]

\* a delete that leaves the object in place
DeleteObject_Keep(s, key) == s

\* the bucket with the object at key removed
DeleteObject(s, key) == [k \in DOMAIN s \ {key} |-> s[k]]

(* --------------------- the handler, up to its first await --------------- *)
\* event.headers["api-key"] || event.headers["API-Key"] || event.headers["Api-Key"]
KeyHdr(event) ==
    OrElse(OrElse(event.headers.lower, event.headers.upper), event.headers.title)

\* the check without its !UPLOAD_KEY guard
AuthFails_NoGuard(keyHdr) == keyHdr # UPLOAD_KEY

\* !UPLOAD_KEY || keyHdr !== UPLOAD_KEY
AuthFails(keyHdr) == Falsy(UPLOAD_KEY) \/ keyHdr # UPLOAD_KEY

\* event?.requestContext?.http?.method || "GET"
MethodOf(event) == OrElse(event.method, "GET")

\* (event?.rawPath || "/").replace(/\/+$/, "")
PathOf(event) ==
    StripTrailingSlashes(IF FalsySeq(event.rawPath) THEN <<"/">> ELSE event.rawPath)

\* new URLSearchParams(event.rawQueryString || "").get("uuid")
UuidOf(event) ==
    URLSearchParamsGet(IF FalsySeq(event.rawQueryString) THEN <<>>
                       ELSE event.rawQueryString, UuidParam)

\* the presigned PUT URL: what it lets its holder do
PutUrl(key) ==
    [key |-> key, contentType |-> "application/zip", expiresIn |-> 900]

\* a response returned before the handler touches the bucket
Respond(event, status, body, ops) ==
    last' = [inv |-> 0, keyHdr |-> KeyHdr(event), method |-> MethodOf(event),
             path |-> PathOf(event), uuid |-> UuidOf(event), status |-> status,
             body |-> body, ops |-> ops]

\* POST /upload/init
UploadInit(event) ==
    /\ minted < MaxMint
    /\ LET uuid == AllUUIDs[minted + 1]
           key  == StagingKey(uuid)
           body == [uuid |-> uuid, putUrl |-> PutUrl(key),
                    completeUrl |-> CompleteUrl(uuid)]
       IN  /\ minted' = minted + 1
           /\ \/ /\ Respond(event, 200, body, <<Op("getSignedUrl", key)>>)
                 /\ issued' = issued \cup {body}
              \/ /\ Respond(event, 500, ErrorBody("Internal Server Error"),
                            <<Op("getSignedUrl", key)>>)
                 /\ UNCHANGED issued
    /\ UNCHANGED <<store, nfin, inv>>

\* POST /upload/complete, up to the GetObject it sends
UploadComplete(event) ==
    LET uuid == UuidOf(event)
    IN  IF FalsySeq(uuid)
        THEN /\ Respond(event, 400, ErrorBody("missing uuid"), <<>>)
             /\ UNCHANGED <<store, minted, issued, nfin, inv>>
        ELSE /\ (nfin + 1) \in DOMAIN inv
             /\ nfin' = nfin + 1
             /\ inv' = [inv EXCEPT ![nfin + 1] =
                          [Idle EXCEPT !.pc = "get", !.path = CompletePath,
                                       !.uuid = uuid,
                                       !.ops = <<Op("GetObject", StagingKey(uuid))>>]]
             /\ last' = NoLast
             /\ UNCHANGED <<store, minted, issued>>

\* a handler that looks at the route first and answers 404 to an unknown one
\* before it checks the key
handler_RouteFirst(event) ==
    /\ IF ~(MethodOf(event) = "POST" /\ PathOf(event) \in {InitPath, CompletePath})
       THEN /\ Respond(event, 404, ErrorBody("Not Found"), <<>>)
            /\ UNCHANGED <<store, minted, issued, nfin, inv>>
       ELSE IF AuthFails(KeyHdr(event))
       THEN /\ Respond(event, 401, ErrorBody("Unauthorized"), <<>>)
            /\ UNCHANGED <<store, minted, issued, nfin, inv>>
       ELSE IF PathOf(event) = InitPath
       THEN UploadInit(event)
       ELSE UploadComplete(event)
    /\ UNCHANGED <<UPLOAD_KEY, edge, edgePrev>>

\* handler(event) of part_000, up to its first await
handler(event) ==
    /\ IF AuthFails(KeyHdr(event))
       THEN /\ Respond(event, 401, ErrorBody("Unauthorized"), <<>>)
            /\ UNCHANGED <<store, minted, issued, nfin, inv>>
       ELSE IF MethodOf(event) = "POST" /\ PathOf(event) = InitPath
       THEN UploadInit(event)
       ELSE IF MethodOf(event) = "POST" /\ PathOf(event) = CompletePath
       THEN UploadComplete(event)
       ELSE /\ Respond(event, 404, ErrorBody("Not Found"), <<>>)
            /\ UNCHANGED <<store, minted, issued, nfin, inv>>
    /\ UNCHANGED <<UPLOAD_KEY, edge, edgePrev>>

(* ----------------- the handler, from the staging read on ---------------- *)
\* no size check
TooLarge_Never(zipBuf) == FALSE

\* the size check with >= for >
TooLarge_AtLeast(zipBuf) == ByteLength(zipBuf) >= MAX_BYTES

\* zipBuf.length > MAX_BYTES
TooLarge(zipBuf) == ByteLength(zipBuf) > MAX_BYTES

\* no filter: folders are uploaded like files
IsFolder_Never(path) == FALSE

\* f.path.endsWith("/")
IsFolder(path) == endsWith(path, <<"/">>)

\* the key without the tenant prefix
EntryKey_NoPrefix(uuid, path) == path

\* `${uuid}/${f.path}`
EntryKey(uuid, path) == uuid \o <<"/">> \o path

\* `https://${uuid}.${BASE_DOMAIN}/`
PublicUrl(uuid) ==
    <<"h", "t", "t", "p", "s", ":", "/", "/">> \o uuid \o <<".">> \o BASE_DOMAIN \o <<"/">>

\* a Promise.all that never resolves
AllSettled_Never(pending) == FALSE

\* resolving as soon as one upload has resolved, as Promise.race would
AllSettled_Any(pending) == TRUE

\* await Promise.all(...) resumes once every upload it waits for has
\* resolved: none is pending
AllSettled(pending) == pending = {}

\* the calls this invocation has made so far, with one more
Issue(i, name, key) == Append(inv[i].ops, Op(name, key))

\* the handler returns: record the response in the invocation and in last
Return(i, status, body, ops, rest) ==
    /\ inv' = [inv EXCEPT ![i] =
                 [rest EXCEPT !.pc = "done", !.status = status, !.body = body,
                              !.ops = ops]]
    /\ last' = [inv |-> i, keyHdr |-> UPLOAD_KEY, method |-> "POST",
                path |-> rest.path, uuid |-> rest.uuid, status |-> status,
                body |-> body, ops |-> ops]

\* a catch block that also removes the staged archive
InternalError_Cleanup(i, rest) ==
    /\ Return(i, 500, ErrorBody("Internal Server Error"),
              Append(rest.ops, Op("DeleteObject", StagingKey(rest.uuid))), rest)
    /\ store' = DeleteObject(store, StagingKey(rest.uuid))

\* a catch block that removes the objects the invocation has written
InternalError_Rollback(i, rest) ==
    /\ Return(i, 500, ErrorBody("Internal Server Error"), rest.ops, rest)
    /\ store' = [k \in DOMAIN store \
                       {rest.uuid \o <<"/">> \o Files(rest.zipBuf)[e].path : e \in rest.written}
                  |-> store[k]]

\* a catch block that answers with the message of the error it caught
InternalError_Leak(i, rest) ==
    /\ Return(i, 500, ErrorBody("NoSuchKey: The specified key does not exist."),
              rest.ops, rest)
    /\ UNCHANGED store

\* the catch block: log the error, answer 500, touch nothing
InternalError(i, rest) ==
    /\ Return(i, 500, ErrorBody("Internal Server Error"), rest.ops, rest)
    /\ UNCHANGED store

\* queueSize of the managed upload: the parts of ONE entry's upload that are
\* sent in parallel
queueSize == 3

\* the PutObject calls of the entries the map starts, in directory order
RECURSIVE EntryOps(_, _, _)
EntryOps(uuid, files, k) ==
    IF k > Len(files) THEN <<>>
    ELSE (IF IsFolder(files[k].path) THEN <<>>
          ELSE <<Op("PutObject", EntryKey(uuid, files[k].path))>>)
         \o EntryOps(uuid, files, k + 1)

\* GetObject answers and the body is buffered; the size check, the opening of
\* the archive and the start of every entry's upload follow without a pause
GetObjectDone(i) ==
    /\ inv[i].pc = "get"
    /\ LET me  == inv[i]
           key == StagingKey(me.uuid)
       IN  \/ \* NoSuchKey, or the service fails
              InternalError(i, me)
           \/ /\ key \in DOMAIN store
              /\ LET zipBuf == store[key].body
                     got    == [me EXCEPT !.zipBuf = zipBuf]
                     files  == Files(zipBuf)
                     todo   == {k \in 1..Len(files) : ~IsFolder(files[k].path)}
                 IN  IF TooLarge(zipBuf)
                     THEN /\ Return(i, 413, ErrorBody("Payload too large"), me.ops, got)
                          /\ UNCHANGED store
                     ELSE IF ~IsZip(zipBuf)
                     THEN InternalError(i, got)
                     ELSE IF AllSettled(todo)
                     THEN /\ inv' = [inv EXCEPT ![i] =
                                       [got EXCEPT !.pc = "delete",
                                                   !.ops = Issue(i, "DeleteObject", key)]]
                          /\ last' = NoLast
                          /\ UNCHANGED store
                     ELSE /\ inv' = [inv EXCEPT ![i] =
                                       [got EXCEPT !.pc = "extract", !.inflight = todo,
                                                   !.ops = me.ops \o EntryOps(me.uuid, files, 1)]]
                          /\ last' = NoLast
                          /\ UNCHANGED store
    /\ UNCHANGED <<UPLOAD_KEY, minted, issued, nfin, edge, edgePrev>>

\* the upload of entry e of the archive ends: up.done() resolves or rejects
putS3Stream(i, e) ==
    /\ e \in inv[i].inflight
    /\ inv[i].pc # "upload"
    /\ LET me   == inv[i]
           f    == Files(me.zipBuf)[e]
           key  == EntryKey(me.uuid, f.path)
           left == [me EXCEPT !.inflight = @ \ {e}]
       IN  \/ \* the object is written
              /\ store' = PutObject(store, key,
                                    [body |-> f.data, contentType |-> contentTypeFor(key)])
              /\ LET done == [left EXCEPT !.written = @ \cup {e}]
                 IN  IF me.pc = "extract" /\ AllSettled(done.inflight)
                     THEN inv' = [inv EXCEPT ![i] =
                                    [done EXCEPT !.pc = "delete",
                                                 !.ops = Issue(i, "DeleteObject",
                                                               StagingKey(me.uuid))]]
                     ELSE inv' = [inv EXCEPT ![i] = done]
              /\ last' = NoLast
           \/ \* the upload fails: Promise.all rejects on the first failure
              IF me.pc = "extract"
              THEN InternalError(i, left)
              ELSE inv' = [inv EXCEPT ![i] = left] /\ last' = NoLast /\ UNCHANGED store
    /\ UNCHANGED <<UPLOAD_KEY, minted, issued, nfin, edge, edgePrev>>

\* DeleteObject of the staged archive answers; on success the handler returns
DeleteObjectDone(i) ==
    /\ inv[i].pc = "delete"
    /\ LET me  == inv[i]
           key == StagingKey(me.uuid)
       IN  \/ /\ store' = DeleteObject(store, key)
              /\ Return(i, 201, [url |-> PublicUrl(me.uuid)], me.ops, me)
           \/ InternalError(i, me)
    /\ UNCHANGED <<UPLOAD_KEY, minted, issued, nfin, edge, edgePrev>>

(* --------------- the single-request handler (lambda/index.mjs) ---------- *)
\* the route API Gateway invokes the function for
UploadPath == <<"/", "u", "p", "l", "o", "a", "d">>

\* event.body as the handler sees it: given or not, and, once Busboy has
\* parsed it, the bytes of its file part (undefined when it has none)
FormBody(file) == [given |-> TRUE, file |-> file]

NoFormBody == [given |-> FALSE, file |-> Undef]

\* contentType.includes("multipart/form-data")
IsMultipart(contentType) == contentType = "multipart/form-data; boundary=b"

UploadEvent(h, contentType, body) ==
    [headers |-> h, contentType |-> contentType, body |-> body]

UploadEvents ==
    { UploadEvent(h, "multipart/form-data; boundary=b", FormBody("Good")) :
          h \in HeaderSets }
      \cup { UploadEvent(Headers(SECRET, Undef, Undef), ct, body) :
                 ct \in {Undef, "application/zip", "multipart/form-data; boundary=b"},
                 body \in {NoFormBody, FormBody(Undef)}
                            \cup {FormBody(b) : b \in PipelineBodies} }

\* a response of the single-request handler returned before any upload
RespondUpload(event, status, body) ==
    last' = [inv |-> 0, keyHdr |-> KeyHdr(event), method |-> "POST",
             path |-> UploadPath, uuid |-> UndefSeq, status |-> status,
             body |-> body, ops |-> <<>>]

\* parseMultipart(event): the status it rejects with, 0 when it resolves
parseMultipart(event) ==
    IF Falsy(event.contentType) \/ ~IsMultipart(event.contentType) THEN 400
    ELSE IF event.body.file # Undef /\ ByteLength(event.body.file) > MAX_BYTES THEN 413
    ELSE IF event.body.file = Undef THEN 400
    ELSE 0

\* the message of the error parseMultipart rejects with
ParseError(event) ==
    IF Falsy(event.contentType) \/ ~IsMultipart(event.contentType)
    THEN "No multipart/form-data"
    ELSE IF event.body.file # Undef /\ ByteLength(event.body.file) > MAX_BYTES
    THEN "Payload too large"
    ELSE "No file part"

\* handler(event) of lambda/index.mjs, up to the start of the uploads
upload_handler(event) ==
    /\ IF AuthFails(KeyHdr(event))
       THEN /\ RespondUpload(event, 401, ErrorBody("Unauthorized"))
            /\ UNCHANGED <<minted, nfin, inv>>
       ELSE IF ~event.body.given
       THEN /\ RespondUpload(event, 400, ErrorBody("No file part"))
            /\ UNCHANGED <<minted, nfin, inv>>
       ELSE IF parseMultipart(event) # 0
       THEN /\ RespondUpload(event, parseMultipart(event), ErrorBody(ParseError(event)))
            /\ UNCHANGED <<minted, nfin, inv>>
       ELSE /\ minted < MaxMint
            /\ minted' = minted + 1
            /\ LET folderId == AllUUIDs[minted + 1]
                   buffer   == event.body.file
                   files    == Files(buffer)
                   todo     == {k \in 1..Len(files) : ~IsFolder(files[k].path)}
               IN  IF ~IsZip(buffer)
                   THEN /\ RespondUpload(event, 500, ErrorBody("Internal Server Error"))
                        /\ UNCHANGED <<nfin, inv>>
                   ELSE IF todo = {}
                   THEN /\ RespondUpload(event, 201, [url |-> PublicUrl(folderId)])
                        /\ UNCHANGED <<nfin, inv>>
                   ELSE /\ (nfin + 1) \in DOMAIN inv
                        /\ nfin' = nfin + 1
                        /\ inv' = [inv EXCEPT ![nfin + 1] =
                                     [Idle EXCEPT !.pc = "upload", !.path = UploadPath,
                                                  !.uuid = folderId, !.zipBuf = buffer,
                                                  !.inflight = todo,
                                                  !.ops = EntryOps(folderId, files, 1)]]
                        /\ last' = NoLast
    /\ UNCHANGED <<UPLOAD_KEY, store, issued, edge, edgePrev>>

\* extractZipBufferToS3: the upload of entry e ends; the handler returns 201
\* once every upload has resolved, 500 as soon as one rejects
extractZipBufferToS3(i, e) ==
    /\ inv[i].pc = "upload"
    /\ e \in inv[i].inflight
    /\ LET me   == inv[i]
           f    == Files(me.zipBuf)[e]
           key  == EntryKey(me.uuid, f.path)
           left == [me EXCEPT !.inflight = @ \ {e}]
       IN  \/ /\ store' = PutObject(store, key,
                                    [body |-> f.data, contentType |-> contentTypeFor(key)])
              /\ LET done == [left EXCEPT !.written = @ \cup {e}]
                 IN  IF AllSettled(done.inflight)
                     THEN Return(i, 201, [url |-> PublicUrl(me.uuid)], me.ops, done)
                     ELSE inv' = [inv EXCEPT ![i] = done] /\ last' = NoLast
           \/ InternalError(i, left)
    /\ UNCHANGED <<UPLOAD_KEY, minted, issued, nfin, edge, edgePrev>>

(* ------------------------------ the client ------------------------------ *)
\* a holder of a presigned URL PUTs a body at the key the URL is signed for,
\* with the content type the signature covers
ClientPut(c, b) ==
    /\ c \in issued
    /\ store' = PutObject(store, c.putUrl.key,
                          [body |-> b, contentType |-> c.putUrl.contentType])
    /\ last' = NoLast
    /\ UNCHANGED <<UPLOAD_KEY, minted, issued, nfin, inv, edge, edgePrev>>

(* ----------------------- the CloudFront function ----------------------- *)
IndexHtml == <<"i", "n", "d", "e", "x", ".", "h", "t", "m", "l">>

\* the function without its trailing-slash rule
cf_handler_NoIndex(req) ==
    LET host   == IF FalsySeq(req.host) THEN <<>> ELSE req.host
        uri    == IF FalsySeq(req.uri) THEN <<"/">> ELSE req.uri
        dot    == indexOf(host, ".")
        folder == substring(host, 0, dot)
        path   == IF startsWith(uri, <<"/">>) THEN uri ELSE <<"/">> \o uri
        norm   == IF path = <<"/">> \/ path = <<>> THEN <<"/">> \o IndexHtml
                  ELSE path
    IN  IF dot <= 0 THEN req
        ELSE [req EXCEPT !.uri = <<"/">> \o folder \o norm]

\* the function guarded against prefixing a URI that already has the prefix
cf_handler_Once(req) ==
    LET host   == IF FalsySeq(req.host) THEN <<>> ELSE req.host
        uri    == IF FalsySeq(req.uri) THEN <<"/">> ELSE req.uri
        dot    == indexOf(host, ".")
        folder == substring(host, 0, dot)
        path   == IF startsWith(uri, <<"/">>) THEN uri ELSE <<"/">> \o uri
        norm   == IF path = <<"/">> \/ path = <<>> THEN <<"/">> \o IndexHtml
                  ELSE IF endsWith(path, <<"/">>) THEN path \o IndexHtml
                  ELSE path
    IN  IF dot <= 0 \/ startsWith(uri, <<"/">> \o folder \o <<"/">>) THEN req
        ELSE [req EXCEPT !.uri = <<"/">> \o folder \o norm]

\* handler(event) of cloudfront-function.js: the request it returns.  A
\* request is [host, uri, querystring]; host and uri may be missing.
cf_handler(req) ==
    LET host   == IF FalsySeq(req.host) THEN <<>> ELSE req.host
        uri    == IF FalsySeq(req.uri) THEN <<"/">> ELSE req.uri
        dot    == indexOf(host, ".")
        folder == substring(host, 0, dot)
        path   == IF startsWith(uri, <<"/">>) THEN uri ELSE <<"/">> \o uri
        norm   == IF path = <<"/">> \/ path = <<>> THEN <<"/">> \o IndexHtml
                  ELSE IF endsWith(path, <<"/">>) THEN path \o IndexHtml
                  ELSE path
    IN  IF dot <= 0 THEN req
        ELSE [req EXCEPT !.uri = <<"/">> \o folder \o norm]

HostAlphabet == {"a", "."}

UriAlphabet == {"/", "x"}

ViewerRequests ==
    [host : StringsUpTo(HostAlphabet, MaxHostLen) \cup {UndefSeq},
     uri  : StringsUpTo(UriAlphabet, MaxUriLen) \cup {UndefSeq},
     querystring : {"q=1"}]

\* a viewer request reaches the edge
ViewerRequest(req) ==
    /\ edgePrev' = IF edge.in = req THEN edge ELSE NoEdge
    /\ edge' = [in |-> req, out |-> cf_handler(req), again |-> FALSE]
    /\ UNCHANGED lambdaVars

\* the function is run a second time, on the request it returned
RunAgain ==
    /\ edge # NoEdge
    /\ ~edge.again
    /\ edgePrev' = IF edge.in = edge.out THEN edge ELSE NoEdge
    /\ edge' = [in |-> edge.out, out |-> cf_handler(edge.out), again |-> TRUE]
    /\ UNCHANGED lambdaVars

(* ---------------------------- specifications ---------------------------- *)
\* the requests that drive the upload pipeline
PipelineEvents ==
    { Event(Headers(SECRET, Undef, Undef), "POST", InitPath, <<>>) }
      \cup { Event(Headers(SECRET, Undef, Undef), "POST", CompletePath,
                   UuidParam \o <<"=">> \o u) : u \in CallerIds }

\* the request a client makes with the follow-up path of an init response
FollowUp(c) ==
    Event(Headers(SECRET, Undef, Undef), "POST",
          RawPathOf(c.completeUrl), RawQueryStringOf(c.completeUrl))

Init ==
    /\ UPLOAD_KEY \in {SECRET, Undef}
    /\ store = [k \in {} |-> NoBody]
    /\ minted = 0
    /\ issued = {}
    /\ nfin = 0
    /\ inv = [i \in 1..MaxFin |-> Idle]
    /\ last = NoLast
    /\ edge = NoEdge
    /\ edgePrev = NoEdge

\* The upload pipeline: tenants, uploads and concurrent finalizations.
Next ==
    \/ \E event \in PipelineEvents : handler(event)
    \/ \E c \in issued : handler(FollowUp(c))
    \/ \E c \in issued, b \in PipelineBodies : ClientPut(c, b)
    \/ \E i \in 1..MaxFin : GetObjectDone(i)
    \/ \E i \in 1..MaxFin : \E e \in inv[i].inflight : putS3Stream(i, e)
    \/ \E i \in 1..MaxFin : DeleteObjectDone(i)

Spec == Init /\ [][Next]_vars

\* Request dispatch: every request shape, with one finalization and three
\* bodies to upload.
DispatchNext ==
    \/ \E event \in Events : handler(event) /\ nfin' <= 1
    \/ \E c \in issued : handler(FollowUp(c)) /\ nfin' <= 1
    \/ \E c \in issued, b \in {"Good", "Big", "Junk"} : ClientPut(c, b)
    \/ GetObjectDone(1)
    \/ \E e \in inv[1].inflight : putS3Stream(1, e)
    \/ DeleteObjectDone(1)
    \/ \E event \in UploadEvents : upload_handler(event) /\ nfin' <= 1
    \/ \E e \in inv[1].inflight : extractZipBufferToS3(1, e)

DispatchSpec == Init /\ [][DispatchNext]_vars

\* Extraction: one invocation of either handler over an archive of two or
\* of four file entries, with every order of completion and failure of its
\* entry uploads.
FanOutBodies == {"Good", "Many"}

FanOutNext ==
    \/ \E event \in PipelineEvents : handler(event) /\ nfin' <= 1
    \/ \E c \in issued, b \in FanOutBodies : ClientPut(c, b)
    \/ GetObjectDone(1)
    \/ \E e \in inv[1].inflight : putS3Stream(1, e)
    \/ DeleteObjectDone(1)
    \/ \E b \in FanOutBodies :
          /\ upload_handler(UploadEvent(Headers(SECRET, Undef, Undef),
                                        "multipart/form-data; boundary=b", FormBody(b)))
          /\ nfin' <= 1
    \/ \E e \in inv[1].inflight : extractZipBufferToS3(1, e)

FanOutSpec == Init /\ [][FanOutNext]_vars

\* Retries: one tenant and one caller, who uploads either of two archives
\* and calls finalize again only after the previous call was answered.
RetryBodies == {"Good", "Edge"}

RetryInit ==
    /\ UPLOAD_KEY \in {SECRET, Undef}
    /\ store = [k \in {} |-> NoBody]
    /\ minted = 0
    /\ issued = {}
    /\ nfin = 0
    /\ inv = [i \in 1..RetryFin |-> Idle]
    /\ last = NoLast
    /\ edge = NoEdge
    /\ edgePrev = NoEdge

RetryNext ==
    \/ /\ handler(Event(Headers(SECRET, Undef, Undef), "POST", InitPath, <<>>))
       /\ minted' <= 1
    \/ \E c \in issued, b \in RetryBodies : ClientPut(c, b)
    \/ \E c \in issued :
          /\ \A i \in DOMAIN inv : inv[i].pc \in {"idle", "done"}
          /\ handler(FollowUp(c))
    \/ \E i \in DOMAIN inv : GetObjectDone(i)
    \/ \E i \in DOMAIN inv : \E e \in inv[i].inflight : putS3Stream(i, e)
    \/ \E i \in DOMAIN inv : DeleteObjectDone(i)

RetrySpec == RetryInit /\ [][RetryNext]_vars

\* The same, with every call to the bucket eventually answered: the read,
\* each entry upload and the delete complete or fail.
LiveSpec ==
    /\ Init
    /\ [][FanOutNext]_vars
    /\ WF_vars(GetObjectDone(1))
    /\ \A e \in 1..4 : WF_vars(putS3Stream(1, e))
    /\ \A e \in 1..4 : WF_vars(extractZipBufferToS3(1, e))
    /\ WF_vars(DeleteObjectDone(1))

\* Racing finalizes: one tenant whose archive is uploaded before the first
\* finalize begins and not again, and two finalize calls in any interleaving.
\* Two invocations that both read the archive here have overlapped: each read
\* it before the other's delete.
RaceNext ==
    \/ /\ handler(Event(Headers(SECRET, Undef, Undef), "POST", InitPath, <<>>))
       /\ minted' <= 1
    \/ \E c \in issued, b \in RetryBodies : nfin = 0 /\ ClientPut(c, b)
    \/ \E c \in issued : handler(FollowUp(c))
    \/ \E i \in DOMAIN inv : GetObjectDone(i)
    \/ \E i \in DOMAIN inv : \E e \in inv[i].inflight : putS3Stream(i, e)
    \/ \E i \in DOMAIN inv : DeleteObjectDone(i)

RaceSpec == Init /\ [][RaceNext]_vars

\* The edge: viewer requests through the CloudFront function.
EdgeNext ==
    \/ \E req \in ViewerRequests : ViewerRequest(req)
    \/ RunAgain

EdgeSpec == Init /\ [][EdgeNext]_vars


(* ------------------------------- claims --------------------------------- *)
\* the step just taken returned the response of a request answered before
\* any call to the bucket was awaited
Answered == last.status # 0 /\ last.inv = 0

\* the request just answered carried no api-key header, or one that differs
\* from the configured secret
BadKey == Falsy(last.keyHdr) \/ last.keyHdr # UPLOAD_KEY

\* C1: a request whose api-key header is absent or differs from the
\* configured secret is answered 401 Unauthorized, whatever its method and
\* path, and the step that answers it makes no call to the bucket or to the
\* presigner and changes nothing: no object, no credential, no invocation.
C1_UnauthorizedIsSideEffectFree ==
    [][ (Answered' /\ BadKey')
          => /\ last'.status = 401
             /\ last'.body = ErrorBody("Unauthorized")
             /\ last'.ops = <<>>
             /\ store' = store
             /\ issued' = issued
             /\ minted' = minted
             /\ inv' = inv ]_vars

\* an unauthorized POST /upload/complete arrives while the bucket holds a
\* staged archive
C1_Witness ==
    /\ Answered /\ BadKey
    /\ last.method = "POST" /\ last.path = CompletePath
    /\ DOMAIN store # {}


\* ---- vocabulary of the claims about a finalize ----
Slash == <<"/">>

\* the finalize invocations that have begun
Started == {i \in DOMAIN inv : inv[i].pc # "idle"}

\* the finalize invocations that have read the staged archive
HasRead == {i \in Started : inv[i].zipBuf # Undef}

\* the entries of an archive whose path does not end in '/'
FileEntries(b) ==
    {e \in 1..Len(Files(b)) :
        Len(Files(b)[e].path) = 0 \/ Files(b)[e].path[Len(Files(b)[e].path)] # "/"}

\* the key of tenant t for the entry path p
KeyOf(t, p) == t \o Slash \o p

\* the keys of the bucket under the prefix t/
Under(t) ==
    {k \in DOMAIN store : Len(k) > Len(t) /\ SubSeq(k, 1, Len(t) + 1) = t \o Slash}

\* the calls of one kind an invocation has made
Calls(i, name) == {k \in 1..Len(inv[i].ops) : inv[i].ops[k].op = name}

\* the keys an invocation has written or has asked to write
PutKeys(i) == {inv[i].ops[k].key : k \in Calls(i, "PutObject")}

\* the bucket holds, under t/, exactly the file entries of archive b with
\* their bytes
PublishedExactly(t, b) ==
    /\ Under(t) = {KeyOf(t, Files(b)[e].path) : e \in FileEntries(b)}
    /\ \A e \in FileEntries(b) : store[KeyOf(t, Files(b)[e].path)].body = Files(b)[e].data
    /\ \A e \in 1..Len(Files(b)) :
          e \notin FileEntries(b) => KeyOf(t, Files(b)[e].path) \notin DOMAIN store

\* some invocation other than i has written an object under the prefix of i
OthersWroteUnder(i) ==
    \E j \in Started \ {i} : \E e \in inv[j].written :
        LET k == KeyOf(inv[j].uuid, Files(inv[j].zipBuf)[e].path)
        IN  SubSeq(k, 1, Len(inv[i].uuid) + 1) = inv[i].uuid \o Slash

\* no two entries of the archive have the same path
DistinctPaths(b) ==
    \A e, f \in 1..Len(Files(b)) : Files(b)[e].path = Files(b)[f].path => e = f

\* the path has a '..' segment or is absolute
Escapes(p) ==
    \/ \E k \in 1..Len(SplitOn(p, "/")) : SplitOn(p, "/")[k] = <<".", ".">>
    \/ (Len(p) > 0 /\ p[1] = "/")

BadEntries(b) == {e \in FileEntries(b) : Escapes(Files(b)[e].path)}

C3_TraversalRejected ==
    \A i \in HasRead :
        BadEntries(inv[i].zipBuf) # {} /\ ~(ByteLength(inv[i].zipBuf) > MAX_BYTES)
          => /\ inv[i].status # 201
             /\ inv[i].written \cap BadEntries(inv[i].zipBuf) = {}
             /\ inv[i].inflight \cap BadEntries(inv[i].zipBuf) = {}

\* C4: a staged archive longer than MAX_CONTENT_LENGTH_MB * 1024 * 1024
\* bytes (100 MB by default) makes finalize return 413 Payload too large
\* having made no call but the read, with no entry written or in flight, and
\* with the staged archive still in the bucket; an archive of exactly that
\* length is not answered 413.
C4_PayloadTooLarge ==
    /\ MAX_BYTES = 104857600
    /\ \A i \in HasRead :
          /\ ByteLength(inv[i].zipBuf) > MAX_BYTES
               => /\ inv[i].status = 413
                  /\ inv[i].body = ErrorBody("Payload too large")
                  /\ inv[i].ops = <<Op("GetObject", STAGING_PREFIX \o inv[i].uuid \o ZipSuffix)>>
                  /\ inv[i].written = {} /\ inv[i].inflight = {}
          /\ ByteLength(inv[i].zipBuf) <= MAX_BYTES => inv[i].status # 413
    /\ last.status = 413
         => /\ (STAGING_PREFIX \o inv[last.inv].uuid \o ZipSuffix) \in DOMAIN store
            /\ store[STAGING_PREFIX \o inv[last.inv].uuid \o ZipSuffix].body
                 = inv[last.inv].zipBuf

\* a finalize has just been answered 413, after a finalize of an archive of exactly the ceiling has returned 201
C4_Witness ==
    /\ last.status = 413
    /\ \E j \in HasRead : ByteLength(inv[j].zipBuf) = MAX_BYTES /\ inv[j].status = 201

\* C5: when a finalize for t returns 201 its body is the URL
\* https://t.{base-domain}/ and the staged archive incoming/t.zip is gone;
\* and an invocation that has asked for the delete of the staged archive has
\* no entry write in flight, has written every file entry of its archive, and
\* made the delete its last call.
C5_DeleteAfterAllWrites ==
    /\ last.status = 201
         => /\ last.body = [url |-> <<"h", "t", "t", "p", "s", ":", "/", "/">>
                                      \o inv[last.inv].uuid \o <<".">> \o BASE_DOMAIN \o Slash]
            /\ (STAGING_PREFIX \o inv[last.inv].uuid \o ZipSuffix) \notin DOMAIN store
            /\ Calls(last.inv, "DeleteObject") # {}
    /\ \A i \in Started :
          Calls(i, "DeleteObject") # {}
            => /\ inv[i].inflight = {}
               /\ inv[i].written = FileEntries(inv[i].zipBuf)
               /\ Calls(i, "DeleteObject") = {Len(inv[i].ops)}
               /\ inv[i].ops[Len(inv[i].ops)].key
                    = STAGING_PREFIX \o inv[i].uuid \o ZipSuffix
               /\ \A k \in Calls(i, "PutObject") : inv[i].ops[k].key \in DOMAIN store

\* a finalize of a two-file archive has just returned 201
C5_Witness ==
    /\ last.status = 201
    /\ Cardinality(inv[last.inv].written) = 2

\* the step just taken returned a finalize's failure
FinalizeFailed == last.inv # 0 /\ last.status \notin {0, 201}

\* the failure just returned came before the delete could be asked for: the
\* archive was missing or unreadable, over the ceiling, or an entry write failed
FailedBeforeDelete ==
    /\ FinalizeFailed
    /\ \/ last.status = 413
       \/ inv[last.inv].zipBuf = Undef
       \/ ~IsZip(inv[last.inv].zipBuf)
       \/ inv[last.inv].written # FileEntries(inv[last.inv].zipBuf)

\* C6 as stated: a finalize that ends with a status other than 201 has asked
\* for no delete of the staged archive, and the staged archive it read is
\* still in the bucket when the response is returned.
C6_FailureNeverDeletes ==
    FinalizeFailed
      => /\ Calls(last.inv, "DeleteObject") = {}
         /\ inv[last.inv].zipBuf # Undef
              => (STAGING_PREFIX \o inv[last.inv].uuid \o ZipSuffix) \in DOMAIN store

\* C6 as amended: a finalize that ends with a status other than 201 because
\* the archive was missing, unreadable or over the ceiling, or because an
\* entry write failed, has asked for no delete, and the step that returns its
\* response leaves the bucket as it was.
C6_FailureBeforeDeleteNeverDeletes ==
    [][ FailedBeforeDelete'
          => /\ \A k \in 1..Len(last'.ops) : last'.ops[k].op # "DeleteObject"
             /\ store' = store ]_vars

\* an entry write has just failed a finalize that had written another entry
C6_Witness ==
    /\ FailedBeforeDelete
    /\ last.status = 500
    /\ inv[last.inv].written # {}
    /\ (STAGING_PREFIX \o inv[last.inv].uuid \o ZipSuffix) \in DOMAIN store

\* the identifiers handed out so far
Tenants == {AllUUIDs[k] : k \in 1..minted}

\* the tenants whose prefix the key begins with
OwnersOf(key) ==
    {t \in Tenants : Len(key) > Len(t) /\ SubSeq(key, 1, Len(t) + 1) = t \o Slash}

\* C7: every key a finalize for identifier t writes begins with t/, lies
\* under the prefix of exactly one tenant and outside incoming/; finalizes
\* for different identifiers write disjoint keys; and every object of the
\* bucket is a staged archive of an issued credential or lies under exactly
\* one tenant's prefix.
C7_KeysPartitionedByTenant ==
    /\ \A i \in Started : \A key \in PutKeys(i) :
          /\ Len(key) > Len(inv[i].uuid)
          /\ SubSeq(key, 1, Len(inv[i].uuid) + 1) = inv[i].uuid \o Slash
          /\ OwnersOf(key) = {inv[i].uuid}
          /\ ~(Len(key) >= Len(STAGING_PREFIX)
                 /\ SubSeq(key, 1, Len(STAGING_PREFIX)) = STAGING_PREFIX)
    /\ \A i, j \in Started :
          inv[i].uuid # inv[j].uuid => PutKeys(i) \cap PutKeys(j) = {}
    /\ \A key \in DOMAIN store :
          \/ \E c \in issued : key = c.putUrl.key
          \/ Cardinality(OwnersOf(key)) = 1

\* finalizes for two different tenants have both written objects
C7_Witness ==
    \E i, j \in Started :
        /\ inv[i].uuid # inv[j].uuid
        /\ inv[i].written # {} /\ inv[j].written # {}


\* ---- the edge router ----
\* the host has a non-empty label before its first '.'
HasTenantLabel(host) ==
    \E k \in 2..Len(host) : host[k] = "." /\ \A j \in 1..(k - 1) : host[j] # "."

\* that label
TenantLabel(host) ==
    SubSeq(host, 1, (CHOOSE k \in 2..Len(host) :
                       host[k] = "." /\ \A j \in 1..(k - 1) : host[j] # ".") - 1)

\* the reference rule for the path: a leading '/', then '/index.html' for
\* '/' or nothing, and 'index.html' after a trailing '/'
WithLeadingSlash(p) == IF Len(p) > 0 /\ p[1] = "/" THEN p ELSE Slash \o p

ReferencePath(p) ==
    LET q == WithLeadingSlash(p)
    IN  IF Len(q) <= 1 THEN <<"/", "i", "n", "d", "e", "x", ".", "h", "t", "m", "l">>
        ELSE IF q[Len(q)] = "/"
        THEN q \o <<"i", "n", "d", "e", "x", ".", "h", "t", "m", "l">>
        ELSE q

\* a missing host is the empty host, a missing URI is '/'
GivenHost(req) == IF req.host = UndefSeq THEN <<>> ELSE req.host

GivenUri(req) == IF req.uri = UndefSeq \/ req.uri = <<>> THEN Slash ELSE req.uri

\* C8: the URI the edge router returns is the reference rule's: unchanged
\* when the host has no '.' or an empty first label; otherwise '/t' followed
\* by the normalised path, t being the label before the first '.'
\* (/ -> /t/index.html, a path ending in '/' gets index.html, /x -> /t/x).
C8_RouterMatchesReference ==
    edge # NoEdge
      => /\ ~HasTenantLabel(GivenHost(edge.in)) => edge.out.uri = edge.in.uri
         /\ HasTenantLabel(GivenHost(edge.in))
              => edge.out.uri = Slash \o TenantLabel(edge.in.host)
                                  \o ReferencePath(GivenUri(edge.in))
         /\ (edge.in.host = <<"a", ".">> /\ edge.in.uri = <<"/">>)
              => edge.out.uri = <<"/", "a", "/", "i", "n", "d", "e", "x", ".", "h", "t", "m", "l">>
         /\ (edge.in.host = <<"a", ".">> /\ edge.in.uri = <<"/", "x">>)
              => edge.out.uri = <<"/", "a", "/", "x">>
         /\ (edge.in.host = <<"a", ".">> /\ edge.in.uri = <<"x", "/">>)
              => edge.out.uri = <<"/", "a", "/", "x", "/", "i", "n", "d", "e", "x", ".", "h", "t", "m", "l">>

\* a request for a folder of a tenant has been routed
C8_Witness ==
    /\ edge # NoEdge
    /\ HasTenantLabel(GivenHost(edge.in))
    /\ edge.in.uri = <<"/", "x", "/">>
    /\ edge.out.uri = <<"/", "a", "/", "x", "/", "i", "n", "d", "e", "x", ".", "h", "t", "m", "l">>

C10_InitIssuesScopedCredential ==
    /\ [][ (Answered' /\ ~BadKey' /\ last'.method = "POST" /\ last'.path = InitPath)
             => /\ store' = store /\ inv' = inv
                /\ Len(last'.ops) = 1 /\ last'.ops[1].op = "getSignedUrl"
                /\ last'.status \in {200, 500}
                /\ last'.status = 200
                     => /\ last'.ops[1].key
                             = STAGING_PREFIX \o last'.body.uuid \o ZipSuffix
                        /\ \A c \in issued : c.uuid # last'.body.uuid
                        /\ last'.body.putUrl =
                             [key |-> STAGING_PREFIX \o last'.body.uuid \o ZipSuffix,
                              contentType |-> "application/zip", expiresIn |-> 900]
                        /\ last'.body.completeUrl =
                             <<"/", "u", "p", "l", "o", "a", "d", "/", "c", "o", "m",
                               "p", "l", "e", "t", "e", "?", "u", "u", "i", "d", "=">>
                               \o last'.body.uuid ]_vars
    /\ [](\A c \in issued :
             /\ MethodOf(FollowUp(c)) = "POST"
             /\ PathOf(FollowUp(c)) = CompletePath
             /\ UuidOf(FollowUp(c)) = c.uuid
             /\ STAGING_PREFIX \o UuidOf(FollowUp(c)) \o ZipSuffix = c.putUrl.key
             /\ \A i \in Started :
                   inv[i].uuid = c.uuid
                     => \A k \in 1..Len(inv[i].ops) :
                           inv[i].ops[k].op \in {"GetObject", "DeleteObject"}
                             => inv[i].ops[k].key = c.putUrl.key)

\* a finalize called for an issued credential has read and deleted its key
C10_Witness ==
    \E c \in issued : \E i \in Started :
        /\ inv[i].uuid = c.uuid
        /\ inv[i].status = 201
        /\ c.putUrl.key \notin DOMAIN store

\* ---- finalizing again ----
\* With a caller who calls finalize again only after the previous call was
\* answered, invocation j began after invocation i was answered exactly when
\* i < j.  The finalize invocations that began after a finalize for the same
\* identifier had returned 201:
Later ==
    {j \in Started : \E i \in 1..(j - 1) : inv[i].uuid = inv[j].uuid /\ inv[i].status = 201}

\* C11: once a finalize for t has returned 201 the staged archive of t is
\* absent, and it stays absent until a client uploads to the staging key; a
\* finalize for t that began after the 201 and whose read finds no staged
\* archive is answered an error status (500), not 201, and it writes, asks
\* to write and leaves in flight no object under t/: the bucket is unchanged.
C11_RefinalizeFails ==
    /\ [][ (last'.status = 201 /\ last'.inv # 0)
             => (STAGING_PREFIX \o inv'[last'.inv].uuid \o ZipSuffix) \notin DOMAIN store' ]_vars
    /\ [][ \A k \in DOMAIN store' \ DOMAIN store :
               (Len(k) >= Len(STAGING_PREFIX) /\ SubSeq(k, 1, Len(STAGING_PREFIX)) = STAGING_PREFIX)
                 => /\ inv' = inv
                    /\ \E c \in issued : c.putUrl.key = k ]_vars
    /\ [][ \A j \in Later :
               (/\ inv[j].pc = "get" /\ inv'[j].pc # "get"
                /\ (STAGING_PREFIX \o inv[j].uuid \o ZipSuffix) \notin DOMAIN store)
                 => /\ last'.inv = j
                    /\ last'.status = 500
                    /\ inv'[j].pc = "done"
                    /\ inv'[j].written = {} /\ inv'[j].inflight = {}
                    /\ \A k \in 1..Len(inv'[j].ops) : inv'[j].ops[k].op = "GetObject"
                    /\ store' = store ]_vars
    /\ [](\A j \in Later :
             (inv[j].pc = "done" /\ inv[j].zipBuf = Undef)
               => /\ inv[j].status \notin {0, 201}
                  /\ inv[j].written = {} /\ inv[j].inflight = {})

\* a finalize that began after a 201 for the same identifier, with no upload
\* since, has just been answered an error
C11_Witness ==
    /\ last.inv \in Later
    /\ last.status = 500
    /\ inv[last.inv].zipBuf = Undef
    /\ \E i \in Started : inv[i].uuid = inv[last.inv].uuid /\ inv[i].status = 201
    /\ (STAGING_PREFIX \o inv[last.inv].uuid \o ZipSuffix) \notin DOMAIN store

\* the keys of bucket s under the prefix t/
UnderIn(s, t) ==
    {k \in DOMAIN s : Len(k) > Len(t) /\ SubSeq(k, 1, Len(t) + 1) = t \o Slash}

\* a finalize for t has returned 201 and every finalize for t that began
\* before that 201 has ended, with none of its entry writes left in flight
Published(t) ==
    /\ \E i \in Started : inv[i].uuid = t /\ inv[i].status = 201
    /\ \A i \in Started \ Later :
          inv[i].uuid = t => inv[i].pc = "done" /\ inv[i].inflight = {}

\* C12: a tenant's published content is write-once: once a finalize for t
\* has returned 201, no later authorize, client upload or finalize step adds,
\* removes or changes an object under t/.  (Stated for archives without
\* escaping paths, which C3 is about.)
C12_WriteOnce ==
    [][ \A t \in Tenants :
           (Published(t) /\ \A i \in HasRead : BadEntries(inv[i].zipBuf) = {})
             => /\ UnderIn(store', t) = UnderIn(store, t)
                /\ \A k \in UnderIn(store, t) : store'[k] = store[k] ]_vars

\* ---- failures ----
\* the statuses the two handlers answer with
Statuses == {200, 201, 400, 401, 404, 413, 500}

\* the invocation whose awaited call the step just taken saw fail: its read
\* of a missing or unreadable archive, one of its entry writes, or its delete
FailedCall(j) ==
    /\ inv[j].pc \in {"get", "extract", "upload", "delete"}
    /\ inv'[j] # inv[j]
    /\ \/ inv[j].pc = "get" /\ inv'[j].zipBuf = Undef
       \/ inv[j].pc = "get" /\ inv'[j].zipBuf # Undef
            /\ ~(ByteLength(inv'[j].zipBuf) > MAX_BYTES)
            /\ inv'[j].zipBuf \notin {"Good", "Trav", "Edge", "Big", "Many"}
       \/ inv[j].pc \in {"extract", "upload"} /\ inv'[j].written = inv[j].written
       \/ inv[j].pc = "delete"
            /\ (STAGING_PREFIX \o inv[j].uuid \o ZipSuffix) \in DOMAIN store
            /\ store' = store

\* C13: a step in which a call to the bucket fails (the staged archive is
\* missing or cannot be read, the archive cannot be parsed, an entry write
\* fails, the delete fails) ends the invocation with a response of status
\* 500 whose body is exactly {error: "Internal Server Error"}; so does a
\* failing presigner.  Every response has one of the handlers' statuses,
\* every 500 has that body, and an ended invocation holds its one response.
C13_FailuresAreGeneric500 ==
    /\ [][ \A j \in 1..MaxFin :
               FailedCall(j)
                 => /\ inv'[j].pc = "done"
                    /\ inv'[j].status = 500
                    /\ inv'[j].body = [error |-> "Internal Server Error"]
                    /\ last'.inv = j /\ last'.status = 500
                    /\ last'.body = [error |-> "Internal Server Error"] ]_vars
    /\ [](/\ last.status # 0
             => /\ last.status \in Statuses
                /\ last.status = 500 => last.body = [error |-> "Internal Server Error"]
                /\ (last.status = 200 /\ last.path = InitPath)
                     => \E c \in issued : last.body = c
          /\ \A j \in Started :
                /\ inv[j].pc = "done" <=> inv[j].status # 0
                /\ inv[j].status # 0
                     => /\ inv[j].status \in {201, 413, 500}
                        /\ inv[j].status = 500
                             => inv[j].body = [error |-> "Internal Server Error"])

\* a finalize whose delete of the staged archive failed has just been
\* answered 500
C13_Witness ==
    /\ last.inv # 0
    /\ last.status = 500
    /\ Calls(last.inv, "DeleteObject") # {}
    /\ inv[last.inv].written = FileEntries(inv[last.inv].zipBuf)

\* ---- a finalize without an identifier ----
\* the request just answered named no identifier: its query string has no
\* uuid parameter, or an empty one
NoIdentifier == last.uuid = UndefSeq \/ last.uuid = <<>>

\* C14: an authorized POST /upload/complete whose query string has no uuid,
\* or an empty one, is answered 400 (missing uuid) by a step that makes no
\* call to the bucket (no read, no write, no delete) and starts no
\* invocation; no finalize ever runs with an empty identifier.
C14_MissingIdentifierIs400 ==
    /\ [][ (/\ Answered' /\ ~BadKey'
            /\ last'.method = "POST" /\ last'.path = CompletePath
            /\ NoIdentifier')
             => /\ last'.status = 400
                /\ last'.body = [error |-> "missing uuid"]
                /\ last'.ops = <<>>
                /\ store' = store /\ inv' = inv /\ nfin' = nfin
                /\ issued' = issued /\ minted' = minted ]_vars
    /\ [](\A j \in Started : inv[j].uuid # UndefSeq /\ inv[j].uuid # <<>>)
    /\ []((Answered /\ last.status = 400 /\ last.path = CompletePath) => NoIdentifier)

\* an authorized finalize with an empty uuid parameter has just been
\* answered while the bucket holds a staged archive
C14_Witness ==
    /\ Answered /\ ~BadKey
    /\ last.path = CompletePath
    /\ last.uuid = <<>>
    /\ last.status = 400
    /\ DOMAIN store # {}

\* ---- order within one finalize ----
\* the invocation has opened an entry: it has asked for a write, has one in
\* flight or has completed one
HasOpenedEntry(i) ==
    Calls(i, "PutObject") # {} \/ inv[i].inflight # {} \/ inv[i].written # {}

\* C15: an invocation that has opened an entry or asked for a write holds
\* the whole archive, of a length within the ceiling; for a finalize the read
\* of the staged archive is its first call and every write comes after it;
\* and an invocation still waiting for its read, or answered 413, has opened
\* no entry.  The step that ends the read is the one that opens the entries.
C15_ReadThenCheckThenWrite ==
    /\ [](\A i \in Started :
             /\ HasOpenedEntry(i)
                  => /\ inv[i].zipBuf # Undef
                     /\ ByteLength(inv[i].zipBuf) <= MAX_BYTES
                     /\ inv[i].path = CompletePath
                          => /\ inv[i].ops[1] = [op |-> "GetObject",
                                                  key |-> STAGING_PREFIX \o inv[i].uuid \o ZipSuffix]
                             /\ \A k \in Calls(i, "PutObject") : k > 1
             /\ (inv[i].pc = "get" \/ inv[i].status = 413) => ~HasOpenedEntry(i))
    /\ [][ \A i \in 1..MaxFin :
               (inv[i].path = CompletePath /\ inv'[i].inflight # {} /\ inv[i].inflight = {})
                 => /\ inv[i].pc = "get"
                    /\ (STAGING_PREFIX \o inv[i].uuid \o ZipSuffix) \in DOMAIN store
                    /\ inv'[i].zipBuf = store[STAGING_PREFIX \o inv[i].uuid \o ZipSuffix].body ]_vars

\* a finalize has read its archive, passed the size check and has its entry
\* writes in flight
C15_Witness ==
    \E i \in Started :
        /\ inv[i].path = CompletePath
        /\ inv[i].pc = "extract"
        /\ Cardinality(inv[i].inflight) = 2
        /\ inv[i].written = {}

\* ---- fan-out ----
\* C16: the number of entries of one invocation whose extraction is in
\* flight at the same time never exceeds a fixed factor, the same for every
\* archive (here the queueSize of the uploads, 3), and is more than one when
\* the archive has more than one file entry.
C16_BoundedFanOut ==
    /\ [](\A i \in Started : Cardinality(inv[i].inflight) <= queueSize)
    /\ [][ \A i \in 1..MaxFin :
               (/\ inv[i].inflight = {} /\ inv'[i].inflight # {}
                /\ Cardinality(FileEntries(inv'[i].zipBuf)) > 1)
                 => Cardinality(inv'[i].inflight) > 1 ]_vars

\* ---- a failing entry write ----
\* the step just taken saw an entry write of invocation j fail while the
\* handler was waiting for its uploads
EntryWriteFailed(j) ==
    /\ inv[j].pc \in {"extract", "upload"}
    /\ inv'[j].inflight # inv[j].inflight
    /\ inv'[j].written = inv[j].written

\* the key is a staged archive's
IsStagingKey(k) ==
    Len(k) >= Len(STAGING_PREFIX) /\ SubSeq(k, 1, Len(STAGING_PREFIX)) = STAGING_PREFIX

\* C17: the step in which an entry write fails answers the finalize with a
\* failure status, not 201, asks for no delete and leaves the bucket as it
\* is; the answer is never replaced; the objects the invocation had written
\* are still in the bucket with their bytes, and no step ever removes an
\* object under a tenant's prefix.
C17_PartialWritesAreKept ==
    /\ [][ \A j \in 1..MaxFin :
               EntryWriteFailed(j)
                 => /\ last'.inv = j
                    /\ last'.status \notin {0, 201}
                    /\ inv'[j].status = last'.status
                    /\ \A k \in 1..Len(inv'[j].ops) : inv'[j].ops[k].op # "DeleteObject"
                    /\ store' = store ]_vars
    /\ [][ \A j \in 1..MaxFin : inv[j].status # 0 => inv'[j].status = inv[j].status ]_vars
    /\ [][ \A k \in DOMAIN store : ~IsStagingKey(k) => k \in DOMAIN store' ]_vars
    /\ [](\A j \in Started : \A e \in inv[j].written :
             /\ (inv[j].uuid \o Slash \o Files(inv[j].zipBuf)[e].path) \in DOMAIN store
             /\ (\A i \in Started \ {j} : inv[i].uuid # inv[j].uuid)
                  => store[inv[j].uuid \o Slash \o Files(inv[j].zipBuf)[e].path].body
                       = Files(inv[j].zipBuf)[e].data)

\* an entry write has just failed a finalize of the four-file archive that
\* had written two of its entries; the staged archive and both objects are
\* in the bucket
C17_Witness ==
    /\ last.inv # 0
    /\ last.status = 500
    /\ last.path = CompletePath
    /\ inv[last.inv].zipBuf = "Many"
    /\ Cardinality(inv[last.inv].written) = 2
    /\ Cardinality(Under(inv[last.inv].uuid)) = 2
    /\ (STAGING_PREFIX \o inv[last.inv].uuid \o ZipSuffix) \in DOMAIN store

\* ---- retrying a failed finalize ----
\* invocation j is the caller's retry of invocation i: the next finalize for
\* the same identifier after i failed having written some entry, over the
\* same staged archive
RetryOf(i, j) ==
    /\ j = i + 1
    /\ inv[j].uuid = inv[i].uuid
    /\ inv[i].status \notin {0, 201}
    /\ inv[i].written # {}
    /\ inv[j].zipBuf = inv[i].zipBuf

\* C18: when the retry of a finalize that failed with some objects written
\* and the staged archive in place returns 201, the objects under t/ are
\* exactly the file entries of the archive, with their bytes: what a
\* first-try success would have produced, nothing duplicated, nothing stale.
C18_RetryConverges ==
    \A i, j \in Started :
        (RetryOf(i, j) /\ last.inv = j /\ last.status = 201)
          => PublishedExactly(inv[j].uuid, inv[j].zipBuf)

\* ---- termination ----
\* C19: with every call to the bucket eventually answered, an invocation
\* that has begun eventually returns a response, whatever the order in which
\* its entry writes end or fail; a response is returned for an invocation
\* only by the step that ends it, and is never replaced.
C19_FinalizeTerminates ==
    /\ \A i \in 1..MaxFin :
          (inv[i].pc # "idle") ~> (inv[i].pc = "done" /\ inv[i].status \in {201, 413, 500})
    /\ [][ (last'.inv # 0 /\ inv' # inv)
             => /\ inv[last'.inv].pc \notin {"idle", "done"}
                /\ inv'[last'.inv].pc = "done"
                /\ inv'[last'.inv].status = last'.status ]_vars
    /\ [][ \A i \in 1..MaxFin :
               inv[i].pc = "done"
                 => /\ inv'[i].pc = "done"
                    /\ inv'[i].status = inv[i].status
                    /\ inv'[i].body = inv[i].body ]_vars

\* a finalize of the four-file archive has returned 201 after its four
\* entry writes
C19_Witness ==
    /\ last.status = 201
    /\ last.inv # 0
    /\ inv[last.inv].zipBuf = "Many"
    /\ Cardinality(inv[last.inv].written) = 4

\* ---- after the response ----
\* C20: an invocation that has returned its response performs no further
\* write: no entry upload of it that was still in flight completes after the
\* response and puts an object in the bucket.
C20_NoWriteAfterResponse ==
    [][ \A i \in DOMAIN inv :
           inv[i].pc = "done"
             => /\ inv'[i].written = inv[i].written
                /\ inv'[i].inflight # inv[i].inflight => store' = store ]_vars

\* ---- racing finalizes ----
\* C21: of two finalize invocations for the same identifier that run
\* concurrently over the same staged archive, at most one returns 201.
C21_AtMostOneSuccess ==
    \A i, j \in Started :
        (/\ i # j
         /\ inv[i].uuid = inv[j].uuid
         /\ inv[i].zipBuf # Undef
         /\ inv[i].zipBuf = inv[j].zipBuf)
          => ~(inv[i].status = 201 /\ inv[j].status = 201)

\* ---- order of the checks ----
\* the request just answered was for one of the two routes of the two-step
\* handler: POST, and a path that is /upload/init or /upload/complete once
\* its trailing slashes are dropped
KnownRoute ==
    /\ last.method = "POST"
    /\ \/ last.path = <<"/", "u", "p", "l", "o", "a", "d", "/", "i", "n", "i", "t">>
       \/ last.path = <<"/", "u", "p", "l", "o", "a", "d", "/",
                        "c", "o", "m", "p", "l", "e", "t", "e">>

\* the request just answered was made to the two-step handler
TwoStep == Answered /\ last.path # UploadPath

\* C22: the key is checked before the route: a request without the right key
\* is answered 401, never 404, whatever its method and path; a request with
\* the right key for another method or path is answered 404 Not Found by a
\* step that calls neither the bucket nor the presigner and changes nothing;
\* and 404 is the answer to nothing else.
C22_AuthBeforeDispatch ==
    [][ TwoStep'
          => /\ BadKey' => (last'.status = 401 /\ last'.status # 404)
             /\ (~BadKey' /\ ~KnownRoute')
                  => /\ last'.status = 404
                     /\ last'.body = [error |-> "Not Found"]
                     /\ last'.ops = <<>>
                     /\ store' = store /\ issued' = issued
                     /\ minted' = minted /\ inv' = inv /\ nfin' = nfin
             /\ last'.status = 404 => (~BadKey' /\ ~KnownRoute')
             /\ (~BadKey' /\ KnownRoute') => last'.status \in {200, 400, 500} ]_vars

\* a request without the right key for an unknown path has just been
\* answered 401
C22_Witness ==
    /\ TwoStep /\ BadKey
    /\ ~KnownRoute
    /\ last.path = <<"/", "x">>
    /\ last.status = 401

====
